---- MODULE Spec2Model ----
(***************************************************************************)
(* LendingCell<T> / BorrowedCell<T> (src/src/lib.rs).                      *)
(*                                                                         *)
(* One slot, Arc<UnsafeCell<T>>, shared by the Owner handle (LendingCell)  *)
(* and the Borrower handle (BorrowedCell).  The Owner's operations run on  *)
(* one thread, the Borrower's on another (both handles are Send).  The     *)
(* Arc strong count is an atomic; every access to it is one step.          *)
(* try_get and try_to_borrowed read the count and then act on what they    *)
(* read, so each is two steps.  Under Spec, dropping a handle is one step:  *)
(* the atomic decrement, and the destruction of the slot by the thread     *)
(* that took the count to 0 (nobody else holds a handle then, so nothing   *)
(* interleaves).  Under RaceSpec the drop is two steps, the fetch_sub and   *)
(* then drop_slow, as in Arc<T>::drop.                                     *)
(*                                                                         *)
(* The signatures order the Owner's calls as the borrow checker does: a    *)
(* reference returned by try_get / try_get_mut borrows the Owner, so no    *)
(* &mut self or self method runs until it is released; the same holds for  *)
(* the Borrower and the references returned by deref / deref_mut.          *)
(***************************************************************************)
EXTENDS Integers, FiniteSets, Sequences, TLC

\* Values of type T are 1..MaxVal.
MaxVal == 2

Vals == 1..MaxVal

\* Contents of a slot whose T was destroyed or moved out.
NoVal == 0

VARIABLES
    newArg,     \* the value LendingCell::new was called with
    alloc,      \* the Arc allocation (count + UnsafeCell<T>) exists
    strong,     \* the Arc strong count
    value,      \* contents of the UnsafeCell<T>
    ownerAlive, \* the LendingCell handle exists
    borrowers,  \* number of BorrowedCell handles that exist
    opc,        \* Owner thread: "idle", "try_get", "try_to_borrowed", "ref", "mutref"
    ocall,      \* Owner thread: the public method in progress ("none" when idle)
    oseen,      \* Owner thread: the count read by Arc::strong_count
    ret,        \* Owner thread: what the last completed method returned
    bpc,        \* Borrower thread: "idle", "ref", "mutref"
    bret,       \* Borrower thread: the value last read through deref
    destroyed,  \* number of times T's destructor ran on the slot's value
    moved,      \* the value was moved out to the caller by try_into_inner
    lastWritten \* the last write to the value: who wrote (by) and what (val)

vars == <<newArg, alloc, strong, value, ownerAlive, borrowers, opc, ocall, oseen, ret,
          bpc, bret, destroyed, moved, lastWritten>>

ownerVars == <<opc, ocall, oseen, ret>>
borrowerVars == <<bpc, bret>>
slotVars == <<newArg, alloc, strong, value, ownerAlive, borrowers, destroyed, moved,
              lastWritten>>

\* Return values.
Some(op, v) == [op |-> op, kind |-> "Some", val |-> v]
None(op) == [op |-> op, kind |-> "None", val |-> NoVal]
Panic(op) == [op |-> op, kind |-> "Panic", val |-> NoVal]
Ok(op, v) == [op |-> op, kind |-> "Ok", val |-> v]
Err(op) == [op |-> op, kind |-> "Err", val |-> NoVal]
NoRet == [op |-> "new", kind |-> "Ok", val |-> NoVal]

\* Mutant: unwrap lets None through instead of panicking.
Unwrap_NoPanic(op, r) == [r EXCEPT !.op = op]

\* Option::unwrap: None panics, Some passes through.
Unwrap(op, r) == IF r.kind = "None" THEN Panic(op) ELSE [r EXCEPT !.op = op]

\* LendingCell::new: Arc::new(UnsafeCell::new(thing)), count 1, only the Owner.
Init ==
    /\ newArg \in Vals
    /\ alloc = TRUE
    /\ strong = 1
    /\ value = newArg
    /\ ownerAlive = TRUE
    /\ borrowers = 0
    /\ opc = "idle"
    /\ ocall = "none"
    /\ oseen = 0
    /\ ret = NoRet
    /\ bpc = "idle"
    /\ bret = NoVal
    /\ destroyed = 0
    /\ moved = FALSE
    /\ lastWritten = [by |-> "new", val |-> newArg]

\* Mutant: every drop of a handle destroys the value.
ArcDropDestroys_Always(c) == c <= 2

\* Mutant: no drop of a handle ever destroys the value.
ArcDropDestroys_Never(c) == FALSE

\* Arc<T>::drop: decrement; the handle that takes the count to 0 destroys T
\* and frees the allocation.
ArcDropDestroys(c) == c = 1

\* Mutant: the handle is forgotten, not dropped; the count is left as it was.
ArcDrop_Leak == UNCHANGED <<strong, alloc, value, destroyed>>

ArcDrop ==
    /\ strong' = strong - 1
    /\ IF ArcDropDestroys(strong)
         THEN /\ alloc' = FALSE
              /\ value' = NoVal
              /\ destroyed' = destroyed + 1
         ELSE UNCHANGED <<alloc, value, destroyed>>

------------------------------------------------------------------------------
\* Owner thread

\* Mutant: the check lets the Owner in while a Borrower holds the slot.
TryGetCheck_Lax(c) == c >= 1

\* `if Arc::strong_count(&self.thing) == 1` in try_get.
TryGetCheck(c) == c = 1

\* try_get, first step: Arc::strong_count(&self.thing).
TryGetRead(api) ==
    /\ ownerAlive
    /\ opc = "idle"
    /\ opc' = "try_get"
    /\ ocall' = api
    /\ oseen' = strong
    /\ UNCHANGED <<ret, borrowerVars, slotVars>>

TryGet == TryGetRead("try_get")

\* get: self.try_get().unwrap()
Get == TryGetRead("get")

\* Mutant: the branches of try_get are swapped.
TryGetResult_Swapped(c) == IF TryGetCheck(c) THEN None("try_get") ELSE Some("try_get", value)

\* try_get, second step: Some(&*self.thing.get()) or None.
TryGetResult(c) == IF TryGetCheck(c) THEN Some("try_get", value) ELSE None("try_get")

TryGetReturn ==
    /\ opc = "try_get"
    /\ LET r == IF ocall = "get" THEN Unwrap("get", TryGetResult(oseen))
                ELSE TryGetResult(oseen)
       IN /\ ret' = r
          /\ opc' = IF r.kind = "Some" THEN "ref" ELSE "idle"
    /\ ocall' = "none"
    /\ UNCHANGED <<oseen, borrowerVars, slotVars>>

\* Mutant: get_mut does not look at the other strong reference.
ArcGetMutOk_Lax(c) == c >= 1

\* Arc::get_mut: Some only for the unique handle.
ArcGetMutOk(c) == c = 1

\* try_get_mut: Arc::get_mut(&mut self.thing).map(|c| c.get_mut())
TryGetMutResult == IF ArcGetMutOk(strong) THEN Some("try_get_mut", value) ELSE None("try_get_mut")

TryGetMutCall(api) ==
    /\ ownerAlive
    /\ opc = "idle"
    /\ LET r == IF api = "get_mut" THEN Unwrap("get_mut", TryGetMutResult)
                ELSE TryGetMutResult
       IN /\ ret' = r
          /\ opc' = IF r.kind = "Some" THEN "mutref" ELSE "idle"
    /\ UNCHANGED <<ocall, oseen, borrowerVars, slotVars>>

TryGetMut == TryGetMutCall("try_get_mut")

\* get_mut: self.try_get_mut().unwrap()
GetMut == TryGetMutCall("get_mut")

\* A write through the &mut T that try_get_mut / get_mut returned.
OwnerWrite ==
    /\ opc = "mutref"
    /\ \E v \in Vals :
            /\ value' = v
            /\ lastWritten' = [by |-> "owner", val |-> v]
    /\ UNCHANGED <<ownerVars, borrowerVars, newArg, alloc, strong, ownerAlive,
                   borrowers, destroyed, moved>>

\* The reference returned by try_get / try_get_mut goes out of scope.
OwnerRelease ==
    /\ opc \in {"ref", "mutref"}
    /\ opc' = "idle"
    /\ UNCHANGED <<ocall, oseen, ret, borrowerVars, slotVars>>

\* Mutant: try_to_borrowed lends whatever the count is.
LendCheck_Always(c) == c >= 1

\* Mutant: try_to_borrowed compares the count with 0 and never lends.
LendCheck_Zero(c) == c = 0

\* `if Arc::strong_count(&self.thing) == 1` in try_to_borrowed.
LendCheck(c) == c = 1

\* try_to_borrowed, first step: Arc::strong_count(&self.thing).
TryToBorrowedRead(api) ==
    /\ ownerAlive
    /\ opc = "idle"
    /\ opc' = "try_to_borrowed"
    /\ ocall' = api
    /\ oseen' = strong
    /\ UNCHANGED <<ret, borrowerVars, slotVars>>

TryToBorrowed == TryToBorrowedRead("try_to_borrowed")

\* to_borrowed: self.try_to_borrowed().unwrap()
ToBorrowed == TryToBorrowedRead("to_borrowed")

\* Mutant: try_to_borrowed waits until the value is free and then lends.
TryToBorrowedReturn_Waits ==
    /\ opc = "try_to_borrowed"
    /\ strong = 1
    /\ strong' = strong + 1
    /\ borrowers' = borrowers + 1
    /\ ret' = Some(ocall, value)
    /\ opc' = "idle"
    /\ ocall' = "none"
    /\ UNCHANGED <<oseen, borrowerVars, newArg, lastWritten, alloc, value, ownerAlive, destroyed,
                   moved>>

\* Mutant: the Arc is cloned before the count is checked, and the clone is
\* kept when the check fails.
TryToBorrowedReturn_ClonesFirst ==
    /\ opc = "try_to_borrowed"
    /\ strong' = strong + 1
    /\ borrowers' = borrowers + 1
    /\ ret' = IF LendCheck(oseen) THEN Some(ocall, value)
              ELSE IF ocall = "to_borrowed"
                     THEN Unwrap("to_borrowed", None("try_to_borrowed"))
                     ELSE None("try_to_borrowed")
    /\ opc' = "idle"
    /\ ocall' = "none"
    /\ UNCHANGED <<oseen, borrowerVars, newArg, lastWritten, alloc, value, ownerAlive,
                   destroyed, moved>>

\* try_to_borrowed, second step: Some(BorrowedCell { thing: Arc::clone(..) })
\* or None.
TryToBorrowedReturn ==
    /\ opc = "try_to_borrowed"
    /\ IF LendCheck(oseen)
         THEN /\ strong' = strong + 1
              /\ borrowers' = borrowers + 1
              /\ ret' = Some(ocall, value)
         ELSE /\ UNCHANGED <<strong, borrowers>>
              /\ ret' = IF ocall = "to_borrowed"
                          THEN Unwrap("to_borrowed", None("try_to_borrowed"))
                          ELSE None("try_to_borrowed")
    /\ opc' = "idle"
    /\ ocall' = "none"
    /\ UNCHANGED <<oseen, borrowerVars, newArg, lastWritten, alloc, value, ownerAlive, destroyed,
                   moved>>

\* Mutant: try_unwrap takes the value out whatever the count is.
ArcTryUnwrapOk_Always(c) == c >= 1

\* Arc::try_unwrap: Ok only when the strong count is exactly 1.
ArcTryUnwrapOk(c) == c = 1

\* Mutant: on failure the Arc is dropped instead of being wrapped in a
\* LendingCell again, so the Owner is lost.
TryIntoInner_DropsOnErr ==
    /\ ownerAlive
    /\ opc = "idle"
    /\ IF ArcTryUnwrapOk(strong)
         THEN /\ ret' = Ok("try_into_inner", value)
              /\ alloc' = FALSE
              /\ value' = NoVal
              /\ moved' = TRUE
         ELSE /\ ret' = Err("try_into_inner")
              /\ UNCHANGED <<alloc, value, moved>>
    /\ strong' = strong - 1
    /\ ownerAlive' = FALSE
    /\ UNCHANGED <<opc, ocall, oseen, borrowerVars, newArg, lastWritten, borrowers, destroyed>>

\* try_into_inner: Arc::try_unwrap(self.thing).map(into_inner)
\*                    .map_err(|a| LendingCell { thing: a })
TryIntoInner ==
    /\ ownerAlive
    /\ opc = "idle"
    /\ IF ArcTryUnwrapOk(strong)
         THEN /\ ret' = Ok("try_into_inner", value)
              /\ strong' = strong - 1
              /\ alloc' = FALSE
              /\ value' = NoVal
              /\ moved' = TRUE
              /\ ownerAlive' = FALSE
         ELSE /\ ret' = Err("try_into_inner")
              /\ UNCHANGED <<strong, alloc, value, moved, ownerAlive>>
    /\ UNCHANGED <<opc, ocall, oseen, borrowerVars, newArg, lastWritten, borrowers, destroyed>>

\* The LendingCell goes out of scope: its field `thing` is dropped.
OwnerDrop ==
    /\ ownerAlive
    /\ opc = "idle"
    /\ ownerAlive' = FALSE
    /\ ArcDrop
    /\ UNCHANGED <<ownerVars, borrowerVars, newArg, lastWritten, borrowers, moved>>

------------------------------------------------------------------------------
\* Borrower thread

\* deref: &*self.thing.get(), no check.
Deref ==
    /\ borrowers > 0
    /\ bpc = "idle"
    /\ bpc' = "ref"
    /\ bret' = value
    /\ UNCHANGED <<ownerVars, slotVars>>

\* deref_mut: &mut *self.thing.get(), no check.
DerefMut ==
    /\ borrowers > 0
    /\ bpc = "idle"
    /\ bpc' = "mutref"
    /\ bret' = value
    /\ UNCHANGED <<ownerVars, slotVars>>

\* Mutant: deref_mut hands out a copy of the value, so the write misses the
\* slot.
BorrowerWrite_Copy ==
    /\ bpc = "mutref"
    /\ \E v \in Vals : lastWritten' = [by |-> "borrower", val |-> v]
    /\ UNCHANGED <<ownerVars, borrowerVars, newArg, alloc, strong, value, ownerAlive,
                   borrowers, destroyed, moved>>

\* A write through the &mut T that deref_mut returned.
BorrowerWrite ==
    /\ bpc = "mutref"
    /\ \E v \in Vals :
            /\ value' = v
            /\ lastWritten' = [by |-> "borrower", val |-> v]
    /\ UNCHANGED <<ownerVars, borrowerVars, newArg, alloc, strong, ownerAlive,
                   borrowers, destroyed, moved>>

\* The reference returned by deref / deref_mut goes out of scope.
BorrowerRelease ==
    /\ bpc \in {"ref", "mutref"}
    /\ bpc' = "idle"
    /\ UNCHANGED <<bret, ownerVars, slotVars>>

\* The BorrowedCell goes out of scope: its field `thing` is dropped.
BorrowerDrop ==
    /\ borrowers > 0
    /\ bpc = "idle"
    /\ borrowers' = borrowers - 1
    /\ ArcDrop
    /\ UNCHANGED <<ownerVars, borrowerVars, newArg, lastWritten, ownerAlive, moved>>

------------------------------------------------------------------------------

Next ==
    \/ TryGet
    \/ Get
    \/ TryGetReturn
    \/ TryGetMut
    \/ GetMut
    \/ OwnerWrite
    \/ OwnerRelease
    \/ TryToBorrowed
    \/ ToBorrowed
    \/ TryToBorrowedReturn
    \/ TryIntoInner
    \/ OwnerDrop
    \/ Deref
    \/ DerefMut
    \/ BorrowerWrite
    \/ BorrowerRelease
    \/ BorrowerDrop

Spec == Init /\ [][Next]_vars

------------------------------------------------------------------------------
\* The drop of a handle at the grain of Arc<T>::drop: the atomic fetch_sub on
\* the count is one step, and the thread whose fetch_sub returned 1 goes on
\* to destroy T and free the allocation in a second step.

\* fetch_sub(1) on the strong count: the new count.
ArcFetchSub(c) == c - 1

\* drop_slow: T's destructor runs and the allocation is freed.
ArcDropSlow ==
    /\ alloc' = FALSE
    /\ value' = NoVal
    /\ destroyed' = destroyed + 1

\* The LendingCell goes out of scope, first step: fetch_sub on the count.
OwnerDropDec ==
    /\ ownerAlive
    /\ opc = "idle"
    /\ ownerAlive' = FALSE
    /\ strong' = ArcFetchSub(strong)
    /\ opc' = IF ArcDropDestroys(strong) THEN "drop_slow" ELSE "idle"
    /\ UNCHANGED <<ocall, oseen, ret, borrowerVars, newArg, lastWritten, alloc, value, borrowers,
                   destroyed, moved>>

\* The LendingCell goes out of scope, second step, for the last handle.
OwnerDropSlow ==
    /\ opc = "drop_slow"
    /\ ArcDropSlow
    /\ opc' = "idle"
    /\ UNCHANGED <<ocall, oseen, ret, borrowerVars, newArg, lastWritten, strong, ownerAlive,
                   borrowers, moved>>

\* The BorrowedCell goes out of scope, first step: fetch_sub on the count.
BorrowerDropDec ==
    /\ borrowers > 0
    /\ bpc = "idle"
    /\ borrowers' = borrowers - 1
    /\ strong' = ArcFetchSub(strong)
    /\ bpc' = IF ArcDropDestroys(strong) THEN "drop_slow" ELSE "idle"
    /\ UNCHANGED <<bret, ownerVars, newArg, lastWritten, alloc, value, ownerAlive, destroyed,
                   moved>>

\* The BorrowedCell goes out of scope, second step, for the last handle.
BorrowerDropSlow ==
    /\ bpc = "drop_slow"
    /\ ArcDropSlow
    /\ bpc' = "idle"
    /\ UNCHANGED <<bret, ownerVars, newArg, lastWritten, strong, ownerAlive, borrowers, moved>>

RaceNext ==
    \/ TryGet
    \/ Get
    \/ TryGetReturn
    \/ TryGetMut
    \/ GetMut
    \/ OwnerWrite
    \/ OwnerRelease
    \/ TryToBorrowed
    \/ ToBorrowed
    \/ TryToBorrowedReturn
    \/ TryIntoInner
    \/ OwnerDropDec
    \/ OwnerDropSlow
    \/ Deref
    \/ DerefMut
    \/ BorrowerWrite
    \/ BorrowerRelease
    \/ BorrowerDropDec
    \/ BorrowerDropSlow

\* A thread that is in drop_slow runs on to the end of it.
RaceSpec ==
    /\ Init
    /\ [][RaceNext]_vars
    /\ WF_vars(OwnerDropSlow)
    /\ WF_vars(BorrowerDropSlow)

------------------------------------------------------------------------------
\* The states of the slot, told by the handles that exist (not by the count).

Present == alloc /\ ownerAlive /\ borrowers = 0
Lent == alloc /\ ownerAlive /\ borrowers > 0
Orphaned == alloc /\ ~ownerAlive /\ borrowers > 0
Deallocated == ~alloc

\* Number of live handles on the slot.
Handles == (IF ownerAlive THEN 1 ELSE 0) + borrowers

\* The Owner holds a reference to the value, got from try_get / try_get_mut.
OwnerAccess == opc \in {"ref", "mutref"}

\* Holders of access to the value: the Owner while it holds a reference, and
\* every Borrower for as long as it exists.
ExclusiveHolders == (IF OwnerAccess THEN 1 ELSE 0) + borrowers

------------------------------------------------------------------------------
\* C1. Mutual exclusion: in every reachable state at most one of Owner access
\* and Borrower access to the value is valid; the number of holders of
\* access never exceeds 1.
C1_MutualExclusion ==
    /\ ExclusiveHolders <= 1
    /\ ~(OwnerAccess /\ bpc # "idle")

\* The Owner holds a reference after a Borrower has had its access and gone.
C1_Witness == OwnerAccess /\ bret # NoVal /\ borrowers = 0 /\ ExclusiveHolders = 1

\* In each state: the count against the handles and the allocation.
C2_CountInv ==
    /\ alloc => strong \in {1, 2} /\ strong = Handles
    /\ alloc <=> strong # 0
    /\ ~alloc => value = NoVal /\ Handles = 0

\* In each step: the allocation goes exactly when the count reaches 0, for good.
C2_CountStep ==
    /\ (alloc /\ ~alloc') <=> (strong # 0 /\ strong' = 0)
    /\ ~alloc => ~alloc'

\* C2. Count invariant: while the slot exists the strong count is 1 or 2 and
\* equals the number of live handles; the slot and its value go away at
\* exactly the step that takes the count to 0.
C2_CountInvariant == [](C2_CountInv) /\ [][C2_CountStep]_vars

\* The slot was lent, the Borrower read it, and the last handle is gone.
C2_Witness == ~alloc /\ strong = 0 /\ bret # NoVal /\ Handles = 0

\* The count try_get reads passes its check exactly in the Present state.
C3_ReadStep == TryGet => ((TryGetCheck(oseen') <=> Present) /\ (~TryGetCheck(oseen') <=> Lent))

\* What try_get returns for the count it read.
C3_ReturnStep ==
    (TryGetReturn /\ ocall = "try_get") =>
        /\ ret'.kind = "Some" <=> oseen = 1
        /\ ret'.kind = "Some" => ret' = Some("try_get", value) /\ Present
        /\ ret'.kind # "Some" => ret' = None("try_get")
        /\ borrowers > 0 => ret' = None("try_get")
        /\ ret = NoRet => ret' = Some("try_get", newArg)

\* C3. try_get returns a reference to the value iff the slot is Present
\* (count 1) when try_get looks at the count, never while a Borrower is
\* alive; new(v) followed at once by try_get returns v.
C3_TryGet == [][C3_ReadStep /\ C3_ReturnStep]_vars

\* try_get has returned the value and the Owner holds the reference.
C3_Witness == ret.op = "try_get" /\ ret.kind = "Some" /\ ret.val = value /\ opc = "ref"

\* The steps of a lend from Present, and the reads on either side after it.
C4_Step ==
    /\ (TryToBorrowed /\ Present) => LendCheck(oseen')
    /\ (TryToBorrowedReturn /\ ocall = "try_to_borrowed" /\ oseen = 1) =>
            /\ Present
            /\ Lent'
            /\ strong' = 2 /\ borrowers' = 1
            /\ ret' = Some("try_to_borrowed", value)
            /\ value' = value
    /\ (Deref \/ DerefMut) => bret' = value /\ value' = value
    /\ (TryGetReturn /\ ocall = "try_get" /\ borrowers > 0) => ret' = None("try_get")

\* C4. try_to_borrowed called in the Present state succeeds: the count
\* becomes 2, there is one Borrower on the same slot, its deref yields the
\* value the Owner held, and the Owner's try_get returns None while that
\* Borrower lives.
C4_LendSucceeds ==
    [](opc = "try_to_borrowed" /\ oseen = 1 => Present) /\ [][C4_Step]_vars

\* The Owner lent the value and the Borrower reads what the Owner held.
C4_Witness ==
    /\ ret = Some("try_to_borrowed", value)
    /\ Lent /\ strong = 2
    /\ bpc = "ref" /\ bret = value

\* The steps of a try_to_borrowed that meets an outstanding Borrower.
C5_Step ==
    /\ (TryToBorrowed /\ borrowers > 0) => ~LendCheck(oseen')
    /\ (TryToBorrowedReturn /\ ocall = "try_to_borrowed" /\ oseen # 1) =>
            /\ ret' = None("try_to_borrowed")
            /\ borrowers' = borrowers /\ strong' = strong
    /\ (TryToBorrowedReturn /\ borrowers > 0) =>
            /\ ret'.kind \in {"None", "Panic"}
            /\ borrowers' = borrowers /\ strong' = strong

\* C5. At most one Borrower exists at any time: try_to_borrowed called while
\* a Borrower is outstanding returns None and creates no second Borrower.
C5_OneBorrower == [](borrowers <= 1) /\ [][C5_Step]_vars

\* A second try_to_borrowed has failed while the Borrower of an earlier
\* one, which wrote the value, is still there.
C5_Witness ==
    /\ ret = None("try_to_borrowed")
    /\ borrowers = 1 /\ bpc = "mutref" /\ value # newArg

\* The release of a Borrower whose Owner is alive.
C6_Step ==
    (BorrowerDrop /\ ownerAlive) =>
        /\ Lent
        /\ Present'
        /\ strong' = 1
        /\ value' = value
        /\ destroyed' = destroyed /\ moved' = moved

\* What the Owner's next try_get and try_to_borrowed find in Present.
C6_Inv ==
    /\ Present => TryGetResult(strong) = Some("try_get", value) /\ LendCheck(strong)
    /\ Present => value \in Vals
    /\ (opc \in {"try_get", "try_to_borrowed"} /\ oseen = 1) => Present

\* C6. Return on release: a Borrower dropped while the Owner is alive takes
\* the slot from Lent back to Present with the stored value untouched; in
\* Present the Owner's next try_get returns that value and its next
\* try_to_borrowed succeeds, in every repetition of the cycle.
C6_ReturnOnRelease == [](C6_Inv) /\ [][C6_Step]_vars

\* The Owner reads the value back after a Borrower read it and was released,
\* and the value is not the one the cell was built with.
C6_Witness ==
    /\ Present /\ opc = "ref"
    /\ ret = Some("try_get", value)
    /\ bret # NoVal /\ value # newArg

\* The two drops of the orphan path, and every destruction of the value.
C7_Step ==
    /\ (OwnerDrop /\ borrowers > 0) =>
            /\ Orphaned'
            /\ value' = value
            /\ destroyed' = destroyed
    /\ (BorrowerDrop /\ ~ownerAlive) =>
            /\ Orphaned
            /\ Deallocated'
            /\ destroyed = 0 /\ destroyed' = 1
            /\ value' = NoVal
    /\ destroyed' # destroyed => destroyed' = destroyed + 1 /\ strong' = 0

\* The value is destroyed at most once, and a freed slot is out of reach.
C7_Inv ==
    /\ destroyed <= 1
    /\ Orphaned => destroyed = 0 /\ value \in Vals
    /\ (Deallocated /\ ~moved) => destroyed = 1
    /\ Deallocated => ~OwnerAccess /\ bpc = "idle" /\ Handles = 0 /\ ~ENABLED Next

\* C7. Orphan drop: the Owner dropped while the slot is Lent does not destroy
\* the value; the value is destroyed exactly once, at the release of the
\* Borrower, and nothing can access it afterwards.
C7_OrphanDrop == [](C7_Inv) /\ [][C7_Step]_vars

\* The Owner is gone, and the Borrower still reads the value.
C7_Witness == Orphaned /\ bpc = "ref" /\ bret = value /\ destroyed = 0

\* try_into_inner in the Present and in the Lent state.
C8_Step ==
    /\ (TryIntoInner /\ Present) =>
            /\ ret' = Ok("try_into_inner", value)
            /\ Deallocated'
            /\ strong' = 0 /\ Handles' = 0
            /\ moved' /\ destroyed' = destroyed
    /\ (TryIntoInner /\ Lent) =>
            /\ ret' = Err("try_into_inner")
            /\ Lent'
            /\ strong' = 2 /\ borrowers' = 1
            /\ value' = value
            /\ opc' = "idle"

\* The Owner that try_into_inner gave back is usable.
C8_Inv ==
    /\ (ownerAlive /\ opc = "idle") => ENABLED TryGet /\ ENABLED TryIntoInner
    /\ (ret = Err("try_into_inner") /\ Present) =>
            TryGetResult(strong) = Some("try_get", value)
    /\ moved => Deallocated /\ ret = Ok("try_into_inner", ret.val) /\ ret.val \in Vals

\* C8. try_into_inner on a Present Owner returns Ok(value) and frees the slot,
\* leaving no handle; on a Lent Owner it returns Err(Owner) with the count
\* still 2, the Borrower still valid and the Owner still usable.
C8_TryIntoInner == [](C8_Inv) /\ [][C8_Step]_vars

\* try_into_inner failed on a Lent Owner, the Borrower was released, and the
\* Owner that came back is in a try_get that has seen the count 1.
C8_Witness ==
    /\ ret = Err("try_into_inner")
    /\ Present /\ opc = "try_get" /\ oseen = 1

\* The steps of get, get_mut and to_borrowed.
C9_Step ==
    /\ Get => (TryGetCheck(oseen') <=> Present) /\ (~TryGetCheck(oseen') <=> Lent)
    /\ (TryGetReturn /\ ocall = "get") =>
            /\ ret' = Panic("get") <=> oseen # 1
            /\ oseen = 1 => /\ ret' = [TryGetResult(oseen) EXCEPT !.op = "get"]
                            /\ ret'.kind = "Some"
                            /\ opc' = "ref"
    /\ GetMut =>
            /\ ret' = Panic("get_mut") <=> Lent
            /\ Present => /\ ret' = [TryGetMutResult EXCEPT !.op = "get_mut"]
                          /\ ret'.kind = "Some"
                          /\ opc' = "mutref"
    /\ ToBorrowed => (LendCheck(oseen') <=> Present) /\ (~LendCheck(oseen') <=> Lent)
    /\ (TryToBorrowedReturn /\ ocall = "to_borrowed") =>
            /\ ret' = Panic("to_borrowed") <=> oseen # 1
            /\ oseen = 1 => /\ ret' = Some("to_borrowed", value)
                            /\ strong' = 2 /\ borrowers' = 1

\* C9. get, get_mut and to_borrowed panic exactly when the slot is Lent when
\* they look at the count, and in the Present state do what try_get,
\* try_get_mut and try_to_borrowed do.
C9_Assertive == [][C9_Step]_vars

\* get has panicked while the Borrower holds the value.
C9_Witness == ret = Panic("get") /\ Lent /\ bpc = "mutref"

\* Nothing a thread can do next is ever disabled.
C10_Inv ==
    /\ opc = "try_get" => ENABLED TryGetReturn
    /\ opc = "try_to_borrowed" => ENABLED TryToBorrowedReturn
    /\ OwnerAccess => ENABLED OwnerRelease
    /\ (ownerAlive /\ opc = "idle") =>
            /\ ENABLED TryGet /\ ENABLED Get
            /\ ENABLED TryGetMut /\ ENABLED GetMut
            /\ ENABLED TryToBorrowed /\ ENABLED ToBorrowed
            /\ ENABLED TryIntoInner
            /\ ENABLED OwnerDrop
    /\ (borrowers > 0 /\ bpc = "idle") =>
            ENABLED Deref /\ ENABLED DerefMut /\ ENABLED BorrowerDrop
    /\ bpc # "idle" => ENABLED BorrowerRelease
    /\ ~Deallocated => ENABLED Next

\* An operation of the Owner takes one step or two.
C10_Step ==
    /\ (opc \in {"try_get", "try_to_borrowed"} /\ opc' # opc) =>
            opc' \in {"idle", "ref"} /\ ocall' = "none"
    /\ (opc = "idle" /\ opc' # opc) =>
            opc' \in {"try_get", "try_to_borrowed", "mutref"}

\* C10. Non-blocking: in every state every operation a handle can start is
\* enabled, an operation in progress can take its next step whatever the
\* other thread does, that step completes it, and no state before
\* Deallocated is a deadlock.
C10_NonBlocking == [](C10_Inv) /\ [][C10_Step]_vars

\* try_to_borrowed is in progress on a Lent slot while the Borrower holds a
\* mutable reference.
C10_Witness == opc = "try_to_borrowed" /\ oseen = 2 /\ Lent /\ bpc = "mutref"

\* Both decrements count, and only the thread that took the count from 1 to
\* 0 enters drop_slow.
C11_Step ==
    /\ (OwnerDropDec \/ BorrowerDropDec) =>
            /\ strong' = strong - 1
            /\ Handles' = Handles - 1
            /\ (opc' = "drop_slow" \/ bpc' = "drop_slow") <=> strong' = 0
    /\ (OwnerDropDec /\ Lent) => opc' = "idle" /\ alloc' /\ destroyed' = destroyed
    /\ (BorrowerDropDec /\ Lent) => bpc' = "idle" /\ alloc' /\ destroyed' = destroyed
    /\ destroyed' # destroyed => destroyed' = 1 /\ strong = 0 /\ ~alloc'

\* The count is the number of handles, at most one thread destroys, and the
\* value of a slot without handles is destroyed or about to be.
C11_Inv ==
    /\ strong = Handles
    /\ destroyed <= 1
    /\ ~(opc = "drop_slow" /\ bpc = "drop_slow")
    /\ (opc = "drop_slow" \/ bpc = "drop_slow") => Handles = 0 /\ alloc /\ destroyed = 0
    /\ (Handles = 0 /\ ~moved /\ opc # "drop_slow" /\ bpc # "drop_slow") =>
            ~alloc /\ destroyed = 1
    /\ Handles > 0 => alloc /\ destroyed = 0

\* C11. Racing releases: when the Owner's drop and the Borrower's drop run
\* concurrently from the Lent state, in every interleaving both decrements
\* take effect, exactly one of the two threads sees the count reach 0 and
\* destroys the value, and the value is destroyed exactly once.
C11_RacingReleases == [](C11_Inv) /\ [][C11_Step]_vars

\* The slot was lent, the Borrower's decrement came first, and the Owner's
\* thread is the one that destroys the value.
C11_Witness ==
    /\ opc = "drop_slow" /\ strong = 0
    /\ ret.op = "try_to_borrowed" /\ ret.kind = "Some"
    /\ bpc = "idle" /\ borrowers = 0

\* While a Borrower is alive the value is there, and deref / deref_mut can run.
C12_Inv ==
    /\ borrowers > 0 => alloc /\ value \in Vals /\ destroyed = 0 /\ ~moved
    /\ borrowers > 0 => Lent \/ Orphaned
    /\ (borrowers > 0 /\ bpc = "idle") => ENABLED Deref /\ ENABLED DerefMut
    /\ bpc # "idle" => borrowers > 0

\* No step of the Owner takes the value from under a Borrower, and every
\* deref reads it.
C12_Step ==
    /\ (borrowers > 0 /\ (~alloc' \/ destroyed' # destroyed \/ moved' # moved)) =>
            BorrowerDrop /\ borrowers' = 0 /\ ~ownerAlive
    /\ (OwnerDrop /\ borrowers > 0) => alloc' /\ value' = value /\ borrowers' = borrowers
    /\ (TryIntoInner /\ borrowers > 0) =>
            /\ ret' = Err("try_into_inner")
            /\ alloc' /\ value' = value /\ ~moved'
    /\ (Deref \/ DerefMut) => bret' = value /\ bret' \in Vals

\* C12. The Borrower's access is unconditional for its whole lifetime: in
\* every state where a Borrower is alive (Lent or Orphaned) the value exists
\* and deref / deref_mut succeed without a check; the value is never
\* destroyed or moved out, by the Owner's drop or by try_into_inner, while a
\* Borrower is alive.
C12_BorrowerAccess == [](C12_Inv) /\ [][C12_Step]_vars

\* try_into_inner has failed on the Lent slot and the Borrower reads the value.
C12_Witness ==
    /\ ret = Err("try_into_inner")
    /\ Lent /\ bpc = "ref" /\ bret = value /\ value \in Vals

\* The slot is in exactly one of the four states; no operation of the Owner
\* is enabled in Orphaned, and nothing is enabled in Deallocated.
C13_Inv ==
    /\ Cardinality({st \in {"Present", "Lent", "Orphaned", "Deallocated"} :
            \/ st = "Present" /\ Present
            \/ st = "Lent" /\ Lent
            \/ st = "Orphaned" /\ Orphaned
            \/ st = "Deallocated" /\ Deallocated}) = 1
    /\ Orphaned =>
            /\ ~ENABLED TryGet /\ ~ENABLED Get /\ ~ENABLED TryGetReturn
            /\ ~ENABLED TryGetMut /\ ~ENABLED GetMut
            /\ ~ENABLED TryToBorrowed /\ ~ENABLED ToBorrowed
            /\ ~ENABLED TryToBorrowedReturn
            /\ ~ENABLED TryIntoInner /\ ~ENABLED OwnerDrop
            /\ ~ENABLED OwnerWrite /\ ~ENABLED OwnerRelease
    /\ Deallocated => ~ENABLED Next

\* Out of Orphaned the only way is to Deallocated, by the Borrower's drop;
\* an Owner that is gone stays gone and a freed slot stays freed.
C13_Step ==
    /\ Orphaned => Orphaned' \/ Deallocated'
    /\ (Orphaned /\ Deallocated') => BorrowerDrop
    /\ ~ownerAlive => ~ownerAlive'
    /\ Deallocated => Deallocated'

\* C13. Orphaned is a one-way state: once the Owner was dropped while lent, no
\* sequence of operations brings the slot back to Present or Lent; the only
\* transition out of Orphaned is to Deallocated on the Borrower's release,
\* and Deallocated is terminal.
C13_OrphanedOneWay == [](C13_Inv) /\ [][C13_Step]_vars

\* The Borrower of an orphaned slot holds a mutable reference to the value.
C13_Witness == Orphaned /\ bpc = "mutref" /\ ~ownerAlive /\ strong = 1

\* What the query tier leaves alone: the count, the stored value, the handles.
C14_Frame == UNCHANGED <<alloc, strong, value, ownerAlive, borrowers, destroyed, moved>>

\* try_get and try_get_mut always, try_to_borrowed and try_into_inner when
\* they meet a Lent slot or report failure.
C14_Step ==
    /\ (TryGet \/ (TryGetReturn /\ ocall = "try_get") \/ TryGetMut) => C14_Frame
    /\ TryToBorrowed => C14_Frame
    /\ (TryToBorrowedReturn /\ ocall = "try_to_borrowed" /\ Lent) =>
            ret' = None("try_to_borrowed") /\ C14_Frame
    /\ (TryToBorrowedReturn /\ ret'.kind = "None") => C14_Frame
    /\ (TryIntoInner /\ Lent) => ret' = Err("try_into_inner") /\ C14_Frame
    /\ (TryIntoInner /\ ret'.kind = "Err") => Lent /\ C14_Frame

\* C14. Frame of the query tier: try_get and try_get_mut in any state, and
\* try_to_borrowed and try_into_inner when they fail (slot Lent), leave the
\* live-handle count, the stored value and the set of live handles unchanged.
C14_QueryFrame == [][C14_Step]_vars

\* try_get_mut has failed on the Lent slot, whose Borrower holds a reference.
C14_Witness == ret = None("try_get_mut") /\ Lent /\ strong = 2 /\ bpc = "ref"

\* The slot is there for as long as a handle is.
C15_Inv ==
    /\ Handles > 0 => alloc
    /\ Deallocated => Handles = 0 /\ ~ownerAlive /\ borrowers = 0

\* The slot is freed by the thread of the last handle, after that handle went.
C15_Step ==
    (alloc /\ ~alloc') =>
        /\ Handles' = 0
        /\ OwnerDropSlow \/ BorrowerDropSlow \/ (TryIntoInner /\ Handles = 1)

\* C15. The slot lives as long as the last surviving handle: once every handle
\* has been released (Borrower dropped; Owner dropped or consumed by a
\* successful try_into_inner) the slot eventually reaches Deallocated, and it
\* is never deallocated while a handle is alive.
C15_SlotLifetime ==
    /\ [](C15_Inv)
    /\ [][C15_Step]_vars
    /\ (Handles = 0) ~> Deallocated

\* The slot was lent by to_borrowed, both handles were dropped and the value
\* was destroyed with the slot.
C15_Witness ==
    /\ Deallocated /\ Handles = 0 /\ destroyed = 1
    /\ ret = Some("to_borrowed", ret.val)

\* With a live Owner, each of the four checks passes on the current count
\* exactly when no Borrower is alive.
C16_Inv ==
    ownerAlive =>
        /\ TryGetResult(strong).kind = "Some" <=> borrowers = 0
        /\ TryGetMutResult.kind = "Some" <=> borrowers = 0
        /\ LendCheck(strong) <=> borrowers = 0
        /\ ArcTryUnwrapOk(strong) <=> borrowers = 0

\* What each of the four operations decides in the step that looks at the count.
C16_Step ==
    /\ TryGet => (TryGetResult(oseen').kind = "Some" <=> borrowers = 0)
    /\ TryGetMut => (ret'.kind = "Some" <=> borrowers = 0)
    /\ TryToBorrowed => (LendCheck(oseen') <=> borrowers = 0)
    /\ TryIntoInner => (ret'.kind = "Ok" <=> borrowers = 0)

\* C16. The four availability checks of the Owner agree in every reachable
\* state with a live Owner: try_get returns Some, try_get_mut returns Some,
\* try_to_borrowed returns Some and try_into_inner returns Ok under the same
\* condition, that no Borrower is alive, whether the check is strong_count
\* == 1, Arc::get_mut or Arc::try_unwrap.
C16_ChecksAgree == [](C16_Inv) /\ [][C16_Step]_vars

\* try_get_mut has succeeded on a slot that a Borrower had and gave back.
C16_Witness ==
    /\ ret = Some("try_get_mut", ret.val)
    /\ opc = "mutref" /\ Present /\ bret # NoVal

\* The slot holds the last write for as long as it exists.
C17_Inv == alloc => value = lastWritten.val

\* Every read, through either handle, returns the last write.
C17_Step ==
    /\ (TryGetReturn /\ ret'.kind = "Some") => ret'.val = lastWritten.val
    /\ ((TryGetMut \/ GetMut) /\ ret'.kind = "Some") => ret'.val = lastWritten.val
    /\ (TryToBorrowedReturn /\ ret'.kind = "Some") => ret'.val = lastWritten.val
    /\ (TryIntoInner /\ ret'.kind = "Ok") => ret'.val = lastWritten.val
    /\ (Deref \/ DerefMut) => bret' = lastWritten.val
    /\ (OwnerWrite \/ BorrowerWrite) => value' = lastWritten'.val
    /\ lastWritten' # lastWritten => OwnerWrite \/ BorrowerWrite

\* C17. Single shared storage: the value read by whichever handle has access
\* is the last value written by any handle; a write through the Borrower's
\* deref_mut is what the Owner's try_get returns after the Borrower is
\* released, and a write through the Owner's try_get_mut is what the next
\* Borrower's deref returns.
C17_SharedStorage == [](C17_Inv) /\ [][C17_Step]_vars

\* The Owner's try_get has returned a value that the Borrower wrote and that
\* differs from the one the cell was built with.
C17_Witness ==
    /\ opc = "ref" /\ ret = Some("try_get", lastWritten.val)
    /\ lastWritten.by = "borrower" /\ lastWritten.val # newArg

\* A step in which get, get_mut or to_borrowed panics.
C18_PanicStep ==
    /\ ret'.kind = "Panic"
    /\ \/ TryGetReturn /\ ocall = "get"
       \/ GetMut
       \/ TryToBorrowedReturn /\ ocall = "to_borrowed"

\* After a panic on a Lent slot the Borrower is where it was and the Owner
\* can be used.
C18_Inv ==
    /\ (ret.kind = "Panic" /\ Lent) => strong = 2 /\ borrowers = 1 /\ value \in Vals
    /\ (ret.kind = "Panic" /\ Lent /\ bpc = "idle") =>
            ENABLED Deref /\ ENABLED DerefMut /\ ENABLED BorrowerDrop
    /\ (ret.kind = "Panic" /\ ownerAlive /\ opc = "idle") => ENABLED TryGet

\* get, get_mut and to_borrowed panic on a Lent slot and change nothing of
\* it; the Borrower's release after the panic gives the value back.
C18_Step ==
    /\ (((TryGetReturn /\ ocall = "get") \/ GetMut
            \/ (TryToBorrowedReturn /\ ocall = "to_borrowed")) /\ Lent) =>
            ret'.kind = "Panic"
    /\ C18_PanicStep =>
            /\ UNCHANGED <<alloc, strong, value, ownerAlive, borrowers, destroyed,
                           moved, lastWritten>>
            /\ UNCHANGED <<bpc, bret>>
            /\ opc' = "idle"
    /\ (C18_PanicStep /\ Lent) => Lent' /\ strong' = 2 /\ borrowers' = 1
    /\ (BorrowerDrop /\ ret.kind = "Panic" /\ ownerAlive) =>
            Present' /\ value' = value /\ strong' = 1

\* C18. A fatal failure of get, get_mut or to_borrowed on a Lent slot leaves
\* the slot as it was: the count is still 2, no second Borrower was created,
\* the Borrower keeps its access, and releasing it afterwards still returns
\* the slot to Present.
C18_PanicFrame == [](C18_Inv) /\ [][C18_Step]_vars

\* to_borrowed has panicked, the Borrower was released, and the Owner's
\* try_get has seen the count 1.
C18_Witness ==
    /\ ret = Panic("to_borrowed")
    /\ Present /\ opc = "try_get" /\ oseen = 1 /\ bret # NoVal

====
